---- MODULE Spec2Model ----
(***************************************************************************)
(* State-machine model of the real-time chart pipeline of                  *)
(* real-time-cryptocurrency-price-tracking:                                *)
(*   - useBinanceTicker  (src/src/features/home/core/hooks/index.ts)       *)
(*   - useTrades         (src/src/features/home/core/hooks/index.ts)       *)
(*   - ChartContainer    (.../components/chart-panel/chart-container.tsx)  *)
(*   - ChartPanel        (.../components/chart-panel/index.tsx)            *)
(*   - createScales      (src/src/features/home/core/utils/index.ts)       *)
(*   - createTooltip     (.../components/chart-panel/chart-tooltip.tsx)    *)
(*   - Home              (src/unnamed/part_004)                            *)
(* Prices are whole currency units (integers).  JavaScript's NaN and null  *)
(* are the two sentinels NaN and Null, on which no arithmetic is done.     *)
(***************************************************************************)
EXTENDS Integers, Sequences, FiniteSets

(* ------------------------------ bounds --------------------------------- *)
MaxActs == 3
MaxTicks == 4
MaxTradeCalls == 11
MaxEnqueue == 3
MaxPanelTicks == 8
MaxHistoryLen == 3
MaxTooltipTime == 6
MaxHomeCalls == 4

(* ------------------------- values and inputs --------------------------- *)
NaN == -999999
Null == -999998
NoError == "null"
FallbackPrice == 50000
MaxTrades == 10

Symbols == {"btcusdt", "ethusdt"}
MaxPointsSet == {2, 3}

\* Math.random(), in thousandths: 0, 1/2 and just below 1.
RandomUnits == {0, 500, 999}

\* JSON bodies the quote endpoint can answer with; price is a string.
QuoteBodies ==
  { [price |-> <<"5", "0", "0", "0", "0">>],
    [code |-> -1121, msg |-> "Invalid symbol."] }

\* A settled fetch: the body was read (ok) or fetch()/response.json() threw.
Responses == {[ok |-> FALSE]} \cup {[ok |-> TRUE, data |-> d] : d \in QuoteBodies}

(* ------------------------------ state ---------------------------------- *)
VARIABLES
  symbol, maxPoints, alive,            \* props of the hook, component mounted
  price, history, isConnected, error,  \* useState cells of useBinanceTicker
  mockIntervalRef,                     \* 0 = null, else the activation whose interval it holds
  acts,                                \* one record per run of the effect
  clock,                               \* Date.now(), in units of 1000 ms
  tickCount, emitted,                  \* ticks fired so far; ticks appended by the current activation
  trades, tradeCalls,                  \* useTrades: trades; prices passed to addTrade
  marketData, marketArg,               \* useTrades: marketData; the price passed to the last updateMarketData
  marketLog,                           \* the prices Home has passed to updateMarketData
  chart,                               \* ChartContainer: its props, refs and the path's datum
  panel,                               \* ChartPanel: isLoading, and what it passed on
  scales,                              \* createScales: its priceChange argument and its result
  tooltip                              \* createTooltip: the tooltip group and the overlay's handlers

tickerVars == <<symbol, maxPoints, alive, price, history, isConnected, error,
                mockIntervalRef, acts, clock, tickCount, emitted>>
tradeVars == <<trades, tradeCalls>>
marketVars == <<marketData, marketArg, marketLog>>
chartVars == <<chart, panel>>
scaleVars == <<scales, tooltip>>
vars == <<tickerVars, tradeVars, marketVars, chartVars, scaleVars>>

(* --------------------------- pure helpers ------------------------------ *)
DigitVal(c) ==
  CASE c = "0" -> 0 [] c = "1" -> 1 [] c = "2" -> 2 [] c = "3" -> 3 [] c = "4" -> 4
    [] c = "5" -> 5 [] c = "6" -> 6 [] c = "7" -> 7 [] c = "8" -> 8 [] c = "9" -> 9
    [] OTHER -> -1

RECURSIVE ParseDigits(_, _)
ParseDigits(s, acc) ==
  IF s = <<>> \/ DigitVal(Head(s)) < 0 THEN acc
  ELSE ParseDigits(Tail(s), acc * 10 + DigitVal(Head(s)))

\* parseFloat(data.price): the leading number of the string, NaN when the
\* field is missing or does not start with a digit.
ParseFloat(data) ==
  IF "price" \notin DOMAIN data THEN NaN
  ELSE IF data.price = <<>> \/ DigitVal(Head(data.price)) < 0 THEN NaN
  ELSE ParseDigits(data.price, 0)

\* a + b in IEEE arithmetic restricted to integers and NaN.
Add(a, b) == IF a = NaN \/ b = NaN THEN NaN ELSE a + b

\* (Math.random() - 0.5) * (mockPrice * 0.001), r in thousandths.
Change(r, mockPrice) ==
  IF mockPrice = NaN THEN NaN ELSE ((r - 500) * mockPrice) \div 1000000

LastN(s, n) == SubSeq(s, Len(s) - n + 1, Len(s))

\* Mutant of Trim: slice(0, maxPoints), keeping the oldest samples.
TrimKeepsOldest(next, mp) == IF Len(next) > mp THEN SubSeq(next, 1, mp) ELSE next

\* next.length > maxPoints ? next.slice(next.length - maxPoints) : next
Trim(next, mp) == IF Len(next) > mp THEN LastN(next, mp) ELSE next

\* setHistory((prev) => [...prev, tick] trimmed)
AppendTick(prev, tick, mp) == Trim(Append(prev, tick), mp)

\* One run of the effect: its `mounted` flag, the position of initialize()
\* and, once startMockData ran, the generator closure (maxPoints, mockPrice,
\* mockTime) and whether its interval is still scheduled.
NewAct(mp) ==
  [maxPoints |-> mp, mounted |-> TRUE, pc |-> "fetching", outcome |-> "pending",
   timer |-> FALSE, mockPrice |-> Null, mockTime |-> 0]

\* A closure nothing can run any more (flag cleared, interval cancelled)
\* keeps no data.  Of its fetch the record keeps only whether it settled
\* before the teardown ("superseded") or after it ("ignored").
Collect(as) ==
  [i \in DOMAIN as |->
     IF ~as[i].mounted /\ ~as[i].timer
     THEN [as[i] EXCEPT !.maxPoints = 0, !.mockPrice = Null, !.mockTime = 0,
                        !.outcome = IF as[i].outcome \in {"ok", "malformed", "failed"}
                                    THEN "superseded" ELSE as[i].outcome]
     ELSE as[i]]

Cur == Len(acts)

(* ----------------------- useBinanceTicker ------------------------------ *)
TickerInit ==
  /\ symbol \in Symbols
  /\ maxPoints \in MaxPointsSet
  /\ alive = TRUE
  /\ price = Null
  /\ history = <<>>
  /\ isConnected = FALSE
  /\ error = NoError
  /\ mockIntervalRef = 0
  /\ acts = <<NewAct(maxPoints)>>
  /\ clock = 0
  /\ tickCount = 0
  /\ emitted = <<>>

\* clearInterval(mockIntervalRef.current), guarded by the ref being set.
ClearMockIntervalKeeps(as) == as
ClearMockInterval(as) ==
  IF mockIntervalRef # 0 THEN [as EXCEPT ![mockIntervalRef].timer = FALSE] ELSE as

\* startMockData(initialPrice) called by activation a.
StartMockData(as, a, initialPrice) ==
  [ClearMockInterval(as) EXCEPT ![a].timer = TRUE, ![a].mockPrice = initialPrice,
                                ![a].mockTime = clock]

\* What getInitialPrice returns for a settled fetch.
InitialPriceOf(resp) == IF resp.ok THEN ParseFloat(resp.data) ELSE FallbackPrice

\* Mutant of SeedsState: the mounted check is missing.
SeedsStateUnguarded(a, resp) == resp.ok

\* getInitialPrice writes the state only on its try path, and only when mounted.
SeedsState(a, resp) == resp.ok /\ acts[a].mounted

\* Mutant of StartsGenerator: the generator starts only after a good fetch.
StartsGeneratorOnSuccess(a, resp) == acts[a].mounted /\ resp.ok

\* initialize starts the generator whenever it is still mounted.
StartsGenerator(a, resp) == acts[a].mounted

\* The fetch of activation a settles: the rest of getInitialPrice, then the
\* rest of initialize (the await between them yields to no other callback).
FetchSettles(a, resp) ==
  /\ acts[a].pc = "fetching"
  /\ LET initialPrice == InitialPriceOf(resp)
         outcome == IF ~resp.ok THEN "failed"
                    ELSE IF initialPrice = NaN THEN "malformed" ELSE "ok"
     IN /\ IF SeedsState(a, resp) /\ alive
           THEN /\ price' = initialPrice
                /\ history' = <<[time |-> clock, price |-> initialPrice, feed |-> symbol]>>
           ELSE UNCHANGED <<price, history>>
        /\ IF StartsGenerator(a, resp)
           THEN /\ acts' = [StartMockData(acts, a, initialPrice)
                              EXCEPT ![a].pc = "done", ![a].outcome = outcome]
                /\ mockIntervalRef' = a
                /\ isConnected' = IF alive THEN TRUE ELSE isConnected
           ELSE /\ acts' = Collect([acts EXCEPT ![a].pc = "done", ![a].outcome = "ignored"])
                /\ UNCHANGED <<mockIntervalRef, isConnected>>
  /\ UNCHANGED <<symbol, maxPoints, alive, error, clock, tickCount, emitted>>

\* The setInterval callback of activation a's generator.  Besides time and
\* price a sample records the symbol the hook was rendered with when the
\* sample was made (feed), which the code does not store.
TickBody(a) ==
  /\ acts[a].timer
  /\ \E r \in RandomUnits :
       LET mockPrice == Add(acts[a].mockPrice, Change(r, acts[a].mockPrice))
           mockTime == acts[a].mockTime + 1
           tick == [time |-> mockTime, price |-> mockPrice, feed |-> symbol]
       IN /\ acts' = [acts EXCEPT ![a].mockPrice = mockPrice, ![a].mockTime = mockTime]
          /\ IF alive
             THEN /\ price' = mockPrice
                  /\ history' = AppendTick(history, tick, acts[a].maxPoints)
             ELSE UNCHANGED <<price, history>>
          /\ emitted' = IF a = Cur THEN Append(emitted, tick) ELSE emitted
  /\ tickCount' = tickCount + 1
  /\ clock' = clock + 1
  /\ UNCHANGED <<symbol, maxPoints, alive, isConnected, error, mockIntervalRef>>

\* The generator's ticks, up to the bound of the model.
Tick(a) == tickCount < MaxTicks /\ TickBody(a)

\* The effect's cleanup function, run for activation a.
CleanupKeepsMounted(as, a) == Collect(ClearMockInterval(as))
Cleanup(as, a) == Collect(ClearMockInterval([as EXCEPT ![a].mounted = FALSE]))

\* A re-render with a new symbol or maxPoints: cleanup, then the effect again.
ChangeProps(sym, mp) ==
  /\ alive
  /\ Cur < MaxActs
  /\ <<sym, mp>> # <<symbol, maxPoints>>
  /\ symbol' = sym
  /\ maxPoints' = mp
  /\ acts' = Append(Cleanup(acts, Cur), NewAct(mp))
  /\ emitted' = <<>>
  /\ UNCHANGED <<alive, price, history, isConnected, error, mockIntervalRef, clock, tickCount>>

\* The component unmounts: cleanup only.
Unmount ==
  /\ alive
  /\ alive' = FALSE
  /\ acts' = Cleanup(acts, Cur)
  /\ UNCHANGED <<symbol, maxPoints, price, history, isConnected, error,
                 mockIntervalRef, clock, tickCount, emitted>>

(* ------------------------------ useTrades ------------------------------ *)
\* Prices passed to addTrade.
TradePrices == {50000, 50001}

\* The three Math.random() results one generateTrade call uses (type, amount,
\* id), in thousandths.
TradeDraws == {<<700, 100, 123>>, <<300, 900, 456>>}

\* Prices passed to updateMarketData: around both thresholds of the default
\* snapshot (52450 * 1.001 = 52502.45, 48920 * 0.999 = 48871.08), further out,
\* inside the band, and NaN.
MarketPrices == {52460, 52502, 52503, 53000, 53053, 53054, 50000, 48872, 48871, 48000, 47952, NaN}

\* The two Math.random() results one updateMarketData call uses, in thousandths.
MarketDraws == {<<0, 999>>, <<500, 250>>}

TradesInit ==
  /\ trades = <<>>
  /\ tradeCalls = <<>>

DefaultMarketData ==
  [volume24h |-> 1200, marketCap |-> 45800, high24h |-> 52450, low24h |-> 48920]

MarketInit ==
  /\ marketData = DefaultMarketData
  /\ marketArg = Null
  /\ marketLog = <<>>

\* generateTrade(price): amount in 1e-4 units, total in hundredths.
GenerateTrade(p, draw) ==
  LET amount == draw[2] * 5
  IN [id |-> draw[3], time |-> clock,
      type |-> IF draw[1] > 500 THEN "Buy" ELSE "Sell",
      price |-> p, amount |-> amount,
      total |-> IF p = NaN THEN NaN ELSE (amount * p + 50) \div 100]

\* Mutant of PushTrade: slice(0, 11).
PushTradeKeepsEleven(newTrade, prev) ==
  LET all == <<newTrade>> \o prev
  IN IF Len(all) > MaxTrades + 1 THEN SubSeq(all, 1, MaxTrades + 1) ELSE all

\* [newTrade, ...prev].slice(0, 10)
PushTrade(newTrade, prev) ==
  LET all == <<newTrade>> \o prev
  IN IF Len(all) > MaxTrades THEN SubSeq(all, 1, MaxTrades) ELSE all

AddTrade(p, draw) ==
  /\ Len(tradeCalls) < MaxTradeCalls
  /\ trades' = PushTrade(GenerateTrade(p, draw), trades)
  /\ tradeCalls' = Append(tradeCalls, p)

\* Mutant of ShouldUpdate: a 1% band instead of 0.1%.
ShouldUpdateOnePercent(prev, p) ==
  /\ p # NaN
  /\ \/ p * 100 > prev.high24h * 101
     \/ p * 100 < prev.low24h * 99

\* price > prev.high24h * 1.001 || price < prev.low24h * 0.999 (false on NaN)
ShouldUpdateNever(prev, p) == FALSE
ShouldUpdate(prev, p) ==
  /\ p # NaN
  /\ \/ p * 1000 > prev.high24h * 1001
     \/ p * 1000 < prev.low24h * 999

Max(a, b) == IF a >= b THEN a ELSE b
Min(a, b) == IF a <= b THEN a ELSE b

\* Mutant of NextMarketData: high24h and low24h are overwritten by the price.
NextMarketDataOverwrites(prev, p, draw) ==
  IF ~ShouldUpdate(prev, p) THEN prev
  ELSE [volume24h |-> prev.volume24h + (prev.volume24h * (draw[1] - 500)) \div 100000,
        marketCap |-> prev.marketCap + (prev.marketCap * (draw[2] - 500)) \div 200000,
        high24h |-> p,
        low24h |-> p]

\* Mutant of NextMarketData: the early return is missing.
NextMarketDataAlwaysUpdates(prev, p, draw) ==
  IF p = NaN THEN prev
  ELSE [volume24h |-> prev.volume24h + (prev.volume24h * (draw[1] - 500)) \div 100000,
        marketCap |-> prev.marketCap + (prev.marketCap * (draw[2] - 500)) \div 200000,
        high24h |-> Max(prev.high24h, p),
        low24h |-> Min(prev.low24h, p)]

\* The updater passed to setMarketData; volume24h and marketCap in millions.
NextMarketData(prev, p, draw) ==
  IF ~ShouldUpdate(prev, p) THEN prev
  ELSE [volume24h |-> prev.volume24h + (prev.volume24h * (draw[1] - 500)) \div 100000,
        marketCap |-> prev.marketCap + (prev.marketCap * (draw[2] - 500)) \div 200000,
        high24h |-> Max(prev.high24h, p),
        low24h |-> Min(prev.low24h, p)]

UpdateMarketData(p, draw) ==
  /\ marketData' = NextMarketData(marketData, p, draw)
  /\ marketArg' = p

(* --------------------------------- Home -------------------------------- *)
\* Home's effect on [currentPrice, high24h, low24h, updateMarketData] with
\* currentPrice = p: a truthy price other than the two extremes is passed on.
HomePriceEffect(p, draw) ==
  /\ Len(marketLog) < MaxHomeCalls
  /\ p # Null /\ p # NaN /\ p # 0
  /\ p # marketData.high24h /\ p # marketData.low24h
  /\ UpdateMarketData(p, draw)
  /\ marketLog' = Append(marketLog, p)

(* ---------------------------- ChartContainer --------------------------- *)
\* Values the dataPoint prop takes.
ChartPoints == {100, 101, NaN}

\* Values of the visibleCount prop.
VisibleCounts == {2, 3}

\* ChartContainer before its first effect.  live: the host view is mounted.
\* datum: the data bound to the path (<<>> = none).  transition: the
\* transition in flight on the path with its "end" closure, <<>> when none.
\* enqueued, played: every value pushed to / shifted from dataQueue so far.
\* completed: the number of "end" events so far.  fill: the initial data.
NewChart(isLive, vc) ==
  [live |-> isLive, dataPoint |-> Null, visibleCount |-> vc,
   datum |-> <<>>, dataQueue |-> <<>>, isAnimating |-> FALSE, isInitialized |-> FALSE,
   transition |-> <<>>, yDomain |-> <<0, 0>>,
   enqueued |-> <<>>, played |-> <<>>, completed |-> 0, fill |-> <<>>]

Numbers(s) == {s[i] : i \in {j \in 1..Len(s) : s[j] # NaN}}
MinOf(S) == CHOOSE x \in S : \A y \in S : x <= y
MaxOf(S) == CHOOSE x \in S : \A y \in S : x >= y

\* updateScales(currentData): the y domain, in tenths (yPadding = 0.1).
\* d3.min / d3.max skip NaN and are undefined when nothing is left.
YDomain(currentData) ==
  LET nums == Numbers(currentData)
  IN IF nums = {} THEN <<-10, 10>>
     ELSE LET minVal == MinOf(nums)
              maxVal == MaxOf(nums)
          IN IF minVal = maxVal THEN <<minVal * 10 - 10, maxVal * 10 + 10>>
             ELSE <<minVal * 10 - (maxVal - minVal), maxVal * 10 + (maxVal - minVal)>>

\* The base duration of a cycle, 500 ms, in microseconds.
BaseDuration == 500000

\* 500 / (1 + dataQueue.current.length * 0.1), in microseconds.
DurationCountsDequeued(depth) == 5000000 \div (10 + depth + 1)
Duration(depth) == 5000000 \div (10 + depth)

\* newData.slice(1)
DataAfterShiftKeepsAll(newData) == newData
DataAfterShift(newData) == Tail(newData)

\* dataQueue.current.shift(): the value taken and the queue left.
ShiftNewest(q) == [point |-> q[Len(q)], queue |-> SubSeq(q, 1, Len(q) - 1)]
Shift(q) == [point |-> Head(q), queue |-> Tail(q)]

\* runAnimationCycle().  After the unmount pathRef.current is null, and
\* d3.select(null).datum() throws once the point has been shifted.
RunAnimationCycle(c) ==
  IF c.dataQueue = <<>> THEN [c EXCEPT !.isAnimating = FALSE]
  ELSE LET pointToAdd == Shift(c.dataQueue).point
           queue == Shift(c.dataQueue).queue
           newData == Append(c.datum, pointToAdd)
           shifted == [c EXCEPT !.isAnimating = TRUE,
                                !.dataQueue = queue,
                                !.played = Append(c.played, pointToAdd)]
       IN IF ~c.live THEN shifted
          ELSE [shifted EXCEPT !.yDomain = YDomain(newData),
                               !.datum = newData,
                               !.transition = <<[after |-> DataAfterShift(newData),
                                                 duration |-> Duration(Len(queue))]>>]

\* The effect pushes and starts a cycle only when none is animating.
StartsCycleOnPushAlways(c) == TRUE
StartsCycleOnPush(c) == ~c.isAnimating

\* if (!isAnimating.current) runAnimationCycle()
StartCycleIfIdleSkips(c) == c
StartCycleIfIdle(c) == IF StartsCycleOnPush(c) THEN RunAnimationCycle(c) ELSE c

\* Array(visibleCount).fill(dataPoint)
InitialDataSingle(c) == <<c.dataPoint>>
InitialData(c) == [i \in 1..c.visibleCount |-> c.dataPoint]

\* The effect on [dataPoint, runAnimationCycle, visibleCount, ...].
DataPointEffect(c) ==
  IF c.dataPoint = Null THEN c
  ELSE IF ~c.isInitialized
  THEN LET initialData == InitialData(c)
           filled == [c EXCEPT !.yDomain = YDomain(initialData), !.datum = initialData,
                               !.fill = initialData, !.isInitialized = TRUE]
       IN IF filled.dataQueue # <<>> THEN RunAnimationCycle(filled) ELSE filled
  ELSE LET pushed == [c EXCEPT !.dataQueue = Append(c.dataQueue, c.dataPoint),
                               !.enqueued = Append(c.enqueued, c.dataPoint)]
       IN StartCycleIfIdle(pushed)

\* The transition's "end" listener: re-bind the shifted data, then
\* runAnimationCycle().  It does not look at whether the view is mounted.
TransitionEndStops(c) ==
  [c EXCEPT !.datum = Head(c.transition).after, !.transition = <<>>,
            !.completed = c.completed + 1]
TransitionEnd(c) ==
  RunAnimationCycle([c EXCEPT !.datum = Head(c.transition).after, !.transition = <<>>,
                              !.completed = c.completed + 1])

\* A re-render with a new dataPoint.
ChartDataPoint(p) ==
  /\ chart.live
  /\ Len(chart.enqueued) < MaxEnqueue
  /\ p # chart.dataPoint
  /\ chart' = DataPointEffect([chart EXCEPT !.dataPoint = p])

\* A resize on a narrow window: updateScales, updateAxes and runAnimationCycle
\* get new identities and the effect runs again with the same dataPoint.
ChartResize ==
  /\ chart.live
  /\ Len(chart.enqueued) < MaxEnqueue
  /\ chart' = DataPointEffect(chart)

\* d3 fires "end" for the transition in flight.
ChartTransitionEnd ==
  /\ chart.transition # <<>>
  /\ chart' = TransitionEnd(chart)

\* The host view unmounts; the component registers no cleanup for the path.
ChartTeardown ==
  /\ chart.live
  /\ chart' = [chart EXCEPT !.live = FALSE]

(* ------------------------------ ChartPanel ----------------------------- *)
\* The maxPoints ChartPanel is rendered with (a small stand-in for 120).
PanelMaxPoints == 6

\* history.length > 5 ends the loading state.
LoadingThreshold == 5

\* ChartPanel at mount.  reported: the prices passed to onPriceUpdate.
\* accepted: the prices of the samples put into history.  fed: the prices of
\* the ticks put into history since ChartContainer was initialised.
NewPanel == [isLoading |-> TRUE, reported |-> <<>>, accepted |-> <<>>, fed |-> <<>>]

\* JavaScript truthiness of a number | null.
Truthy(p) == p # Null /\ p # NaN /\ p # 0

\* The effect on [price, onPriceUpdate, history] reports whatever price is
\* truthy.
Reports(p) == Truthy(p)

\* ChartContainer re-runs its effect when the dataPoint prop changed.
Reruns(old, new) == old # new

\* The render after the hook put a sample with price p into history: the
\* panel's effect, then ChartContainer mounted or re-rendered with
\* dataPoint = p.  isTick: the sample came from the generator.
PanelRender(p, isTick) ==
  LET loading == panel.isLoading /\ ~(Len(history') > LoadingThreshold)
  IN /\ panel' = [isLoading |-> loading,
                  reported |-> IF Reports(p) THEN Append(panel.reported, p) ELSE panel.reported,
                  accepted |-> Append(panel.accepted, p),
                  fed |-> IF isTick /\ chart.live /\ chart.isInitialized
                          THEN Append(panel.fed, p) ELSE panel.fed]
     /\ chart' = IF loading THEN chart
                 ELSE IF panel.isLoading
                 THEN DataPointEffect([NewChart(TRUE, maxPoints) EXCEPT !.dataPoint = p])
                 ELSE IF Reruns(chart.dataPoint, p)
                 THEN DataPointEffect([chart EXCEPT !.dataPoint = p])
                 ELSE chart

\* The initial fetch settles under a mounted ChartPanel.
PanelFetchSettles(resp) ==
  /\ alive
  /\ FetchSettles(Cur, resp)
  /\ IF resp.ok THEN PanelRender(InitialPriceOf(resp), FALSE)
     ELSE UNCHANGED <<chart, panel>>

\* A generator tick under a mounted ChartPanel.
PanelTick ==
  /\ alive
  /\ tickCount < MaxPanelTicks
  /\ TickBody(Cur)
  /\ PanelRender(price', TRUE)

\* ChartPanel unmounts, and ChartContainer with it.
PanelUnmount ==
  /\ Unmount
  /\ chart' = [chart EXCEPT !.live = FALSE]
  /\ UNCHANGED panel

(* ----------------------------- createScales ---------------------------- *)
\* Prices of the samples createScales is given.
ScalePrices == {NaN, 49950, 50000, 50050}

\* priceChange, in percent.
PriceChanges == {-50, 0, 5, 20}

\* Histories of n samples, one per second.
HistoriesOfLen(n) ==
  {[i \in 1..n |-> [time |-> i, price |-> f[i]]] : f \in [1..n -> ScalePrices]}

\* No call of createScales yet.
NoScales == [applied |-> FALSE, priceChange |-> 0, xDomain |-> <<0, 0>>,
             padding |-> 0, yDomain |-> <<0, 0>>]

Abs(x) == IF x < 0 THEN -x ELSE x

\* Math.min / Math.max: NaN when an argument is NaN (or undefined).
MathMin(a, b) == IF a = NaN \/ b = NaN THEN NaN ELSE IF a <= b THEN a ELSE b
MathMax(a, b) == IF a = NaN \/ b = NaN THEN NaN ELSE IF a >= b THEN a ELSE b

\* d3.extent(history, accessor): NaN values are skipped; [undefined,
\* undefined], which Math.min / Math.max read as NaN, when nothing is left.
Extent(values) ==
  LET nums == Numbers(values)
  IN IF nums = {} THEN <<NaN, NaN>> ELSE <<MinOf(nums), MaxOf(nums)>>

\* a * k, NaN when a is NaN.
Times(a, k) == IF a = NaN THEN NaN ELSE a * k

\* createScales(history, width, height, priceChange): the domains, the
\* prices in 1/10000 units.  padding = currentPrice * max(0.001, |priceChange| / 10000).
CreateScales(h, priceChange) ==
  LET currentPrice == h[Len(h)].price
      priceRange == Extent([i \in 1..Len(h) |-> h[i].price])
      padding == Times(currentPrice, MathMax(10, Abs(priceChange)))
  IN [xDomain |-> Extent([i \in 1..Len(h) |-> h[i].time]),
      padding |-> padding,
      yDomain |-> <<MathMin(Add(Times(currentPrice, 10000), Times(padding, -1)),
                            Times(priceRange[1], 10000)),
                    MathMax(Add(Times(currentPrice, 10000), padding),
                            Times(priceRange[2], 10000))>>]

\* A render calls createScales on the history with the priceChange drawn.
ApplyCreateScales ==
  /\ ~scales.applied
  /\ LET r == CreateScales(history, scales.priceChange)
     IN scales' = [applied |-> TRUE, priceChange |-> scales.priceChange,
                   xDomain |-> r.xDomain, padding |-> r.padding, yDomain |-> r.yDomain]
  /\ UNCHANGED tooltip

(* ---------------------------- createTooltip ---------------------------- *)
\* Prices of the samples under the pointer.
TooltipPrices == {100, 101}

\* Histories of n samples at increasing times within 1..MaxTooltipTime.
TooltipHistories(n) ==
  {h \in [1..n -> [time : 1..MaxTooltipTime, price : TooltipPrices]] :
     \A i \in 1..(n - 1) : h[i].time < h[i + 1].time}

\* Before the first call.  created: the svg holds a .tooltip group.
\* overlay: an overlay rect with the handlers is in place.  bound: the
\* selection the handlers hold contains the group.  text: the label (Null =
\* never set).  x0, picked: the time the last mousemove inverted and the
\* price of the sample it chose (Null = none).  moves: mousemoves so far.
NoTooltip == [created |-> FALSE, overlay |-> FALSE, bound |-> FALSE, text |-> Null,
              x0 |-> Null, picked |-> Null, moves |-> 0]

\* d3.bisector(d => d.time).left(h, x0, 1), as a 0-based index: the first
\* index >= 1 whose time is >= x0, or h.length.
BisectLeft(h, x0) ==
  LET hits == {i \in 1..(Len(h) - 1) : h[i + 1].time >= x0}
  IN IF hits = {} THEN Len(h) ELSE MinOf(hits)

\* The cleanup of ChartContainer's effect: d3.select(".tooltip").remove().
RemoveTooltip(t) == [t EXCEPT !.created = FALSE]

\* createTooltip(...): `tooltip` is svg.select(".tooltip") taken on entry;
\* when it is empty a group and an overlay are appended and the overlay's
\* handlers keep that selection.
CreateTooltip(t) ==
  IF t.created THEN t
  ELSE [t EXCEPT !.created = TRUE, !.overlay = TRUE, !.bound = t.created]

\* The overlay's mousemove handler with xScale.invert(x) = x0.
MouseMoved(t, h, x0) ==
  LET i == BisectLeft(h, x0)
      seen == [t EXCEPT !.x0 = x0, !.moves = t.moves + 1, !.picked = Null]
  IN IF i = 0 \/ i >= Len(h) THEN seen
     ELSE LET d0 == h[i]
              d1 == h[i + 1]
              d == IF x0 - d0.time > d1.time - x0 THEN d1 ELSE d0
          IN [seen EXCEPT !.picked = d.price,
                          !.text = IF t.bound THEN d.price ELSE t.text]

\* ChartContainer's effect on [history, priceChange]: the previous run's
\* cleanup, then createTooltip.
TooltipEffect ==
  /\ Len(history) >= 2
  /\ tooltip' = CreateTooltip(RemoveTooltip(tooltip))
  /\ tooltip' # tooltip
  /\ UNCHANGED scales

\* The pointer moves over the overlay.
MouseMove(x0) ==
  /\ tooltip.overlay
  /\ tooltip.moves < MaxTooltipTime
  /\ tooltip' = MouseMoved(tooltip, history, x0)
  /\ UNCHANGED scales

(* --------------------------- specifications ---------------------------- *)
Init == TickerInit /\ TradesInit /\ MarketInit /\ chart = NewChart(FALSE, 2) /\ panel = NewPanel /\ scales = NoScales /\ tooltip = NoTooltip

Next ==
  \/ \E a \in 1..Len(acts), resp \in Responses :
       FetchSettles(a, resp) /\ UNCHANGED <<tradeVars, marketVars, chartVars, scaleVars>>
  \/ \E a \in 1..Len(acts) : Tick(a) /\ UNCHANGED <<tradeVars, marketVars, chartVars, scaleVars>>
  \/ \E sym \in Symbols, mp \in MaxPointsSet :
       ChangeProps(sym, mp) /\ UNCHANGED <<tradeVars, marketVars, chartVars, scaleVars>>
  \/ Unmount /\ UNCHANGED <<tradeVars, marketVars, chartVars, scaleVars>>

\* useBinanceTicker under every interleaving of its callbacks and re-renders.
Spec == Init /\ [][Next]_vars

\* useTrades is rendered once; the ticker is left in its first state.
InitHook == Init /\ symbol = "btcusdt" /\ maxPoints = 2

NextTrades ==
  \E p \in TradePrices, draw \in TradeDraws :
    AddTrade(p, draw) /\ UNCHANGED <<tickerVars, marketVars, chartVars, scaleVars>>

\* Any sequence of addTrade calls.
SpecTrades == InitHook /\ [][NextTrades]_vars

NextMarket ==
  \E p \in MarketPrices, draw \in MarketDraws :
    UpdateMarketData(p, draw) /\ UNCHANGED <<tickerVars, tradeVars, chartVars, scaleVars, marketLog>>

\* Any sequence of updateMarketData calls.
SpecMarket == InitHook /\ [][NextMarket]_vars

InitChart ==
  /\ TickerInit /\ symbol = "btcusdt" /\ maxPoints = 2
  /\ TradesInit /\ MarketInit
  /\ \E vc \in VisibleCounts : chart = NewChart(TRUE, vc)
  /\ panel = NewPanel /\ scales = NoScales /\ tooltip = NoTooltip

NextChart ==
  \/ \E p \in ChartPoints : ChartDataPoint(p) /\ UNCHANGED <<tickerVars, tradeVars, marketVars, panel, scaleVars>>
  \/ ChartResize /\ UNCHANGED <<tickerVars, tradeVars, marketVars, panel, scaleVars>>
  \/ ChartTransitionEnd /\ UNCHANGED <<tickerVars, tradeVars, marketVars, panel, scaleVars>>
  \/ ChartTeardown /\ UNCHANGED <<tickerVars, tradeVars, marketVars, panel, scaleVars>>

\* ChartContainer under any sequence of dataPoint values, resizes, transition
\* completions and a teardown.
SpecChart == InitChart /\ [][NextChart]_vars

\* The same, when every transition that is started completes.
SpecChartFair == SpecChart /\ WF_vars(ChartTransitionEnd /\ UNCHANGED <<tickerVars, tradeVars, marketVars, panel, scaleVars>>)

InitPanel ==
  /\ symbol = "btcusdt" /\ maxPoints = PanelMaxPoints
  /\ alive = TRUE /\ price = Null /\ history = <<>>
  /\ isConnected = FALSE /\ error = NoError /\ mockIntervalRef = 0
  /\ acts = <<NewAct(PanelMaxPoints)>>
  /\ clock = 0 /\ tickCount = 0 /\ emitted = <<>>
  /\ TradesInit /\ MarketInit
  /\ chart = NewChart(FALSE, PanelMaxPoints) /\ panel = NewPanel /\ scales = NoScales /\ tooltip = NoTooltip

NextPanel ==
  \/ \E resp \in Responses : PanelFetchSettles(resp) /\ UNCHANGED <<tradeVars, marketVars, scaleVars>>
  \/ PanelTick /\ UNCHANGED <<tradeVars, marketVars, scaleVars>>
  \/ ChartTransitionEnd /\ UNCHANGED <<tickerVars, tradeVars, marketVars, panel, scaleVars>>
  \/ PanelUnmount /\ UNCHANGED <<tradeVars, marketVars, scaleVars>>

\* ChartPanel with its feed and its ChartContainer.
SpecPanel == InitPanel /\ [][NextPanel]_vars

InitScales ==
  /\ symbol = "btcusdt" /\ maxPoints = MaxHistoryLen
  /\ alive = TRUE /\ price = Null
  /\ \E n \in 1..MaxHistoryLen : history \in HistoriesOfLen(n)
  /\ isConnected = TRUE /\ error = NoError /\ mockIntervalRef = 0
  /\ acts = <<>>
  /\ clock = 0 /\ tickCount = 0 /\ emitted = <<>>
  /\ TradesInit /\ MarketInit
  /\ chart = NewChart(FALSE, 2) /\ panel = NewPanel
  /\ \E pc \in PriceChanges : scales = [NoScales EXCEPT !.priceChange = pc]
  /\ tooltip = NoTooltip

NextScales == ApplyCreateScales /\ UNCHANGED <<tickerVars, tradeVars, marketVars, chartVars>>

\* createScales applied to every non-empty history within the bounds.
SpecScales == InitScales /\ [][NextScales]_vars

InitTooltip ==
  /\ symbol = "btcusdt" /\ maxPoints = MaxHistoryLen
  /\ alive = TRUE /\ price = Null
  /\ \E n \in 2..MaxHistoryLen : history \in TooltipHistories(n)
  /\ isConnected = TRUE /\ error = NoError /\ mockIntervalRef = 0
  /\ acts = <<>>
  /\ clock = 0 /\ tickCount = 0 /\ emitted = <<>>
  /\ TradesInit /\ MarketInit
  /\ chart = NewChart(FALSE, 2) /\ panel = NewPanel
  /\ scales = NoScales /\ tooltip = NoTooltip

NextTooltip ==
  \/ TooltipEffect /\ UNCHANGED <<tickerVars, tradeVars, marketVars, chartVars>>
  \/ \E x0 \in 0..(MaxTooltipTime + 1) :
       MouseMove(x0) /\ UNCHANGED <<tickerVars, tradeVars, marketVars, chartVars>>

\* createTooltip and its mousemove handler over every history in the bounds.
SpecTooltip == InitTooltip /\ [][NextTooltip]_vars

NextHome ==
  \E p \in MarketPrices, draw \in MarketDraws :
    HomePriceEffect(p, draw) /\ UNCHANGED <<tickerVars, tradeVars, chartVars, scaleVars>>

\* The updateMarketData calls Home makes for any sequence of current prices.
SpecHome == InitHook /\ [][NextHome]_vars

\* Values of ChartPanel's maxPoints prop.
LoadingMaxPoints == {1, 5, PanelMaxPoints}

InitLoading ==
  /\ symbol = "btcusdt" /\ maxPoints \in LoadingMaxPoints
  /\ alive = TRUE /\ price = Null /\ history = <<>>
  /\ isConnected = FALSE /\ error = NoError /\ mockIntervalRef = 0
  /\ acts = <<NewAct(maxPoints)>>
  /\ clock = 0 /\ tickCount = 0 /\ emitted = <<>>
  /\ TradesInit /\ MarketInit
  /\ chart = NewChart(FALSE, PanelMaxPoints) /\ panel = NewPanel
  /\ scales = NoScales /\ tooltip = NoTooltip

\* ChartPanel for any maxPoints, when the fetch settles and the generator's
\* interval keeps firing.
SpecLoading ==
  /\ InitLoading /\ [][NextPanel]_vars
  /\ WF_vars(\E resp \in Responses :
               PanelFetchSettles(resp) /\ UNCHANGED <<tradeVars, marketVars, scaleVars>>)
  /\ WF_vars(PanelTick /\ UNCHANGED <<tradeVars, marketVars, scaleVars>>)

(* ============================== claims ================================= *)
ActIds == DOMAIN acts

\* C1: in every reachable state of useBinanceTicker the history is no longer
\* than the maxPoints the hook is rendered with.
C1_HistoryWithinMaxPoints == Len(history) <= maxPoints

\* C2: once the current activation has appended more than maxPoints ticks,
\* the history is exactly its last maxPoints ticks, in arrival order.
C2_HistoryIsLastMaxPointsTicks ==
  Len(emitted) > maxPoints => history = LastN(emitted, maxPoints)

C2_Witness ==
  /\ Len(emitted) > maxPoints
  /\ Len(history) = maxPoints
  /\ history[1].price # history[2].price
  /\ history[1] # emitted[1]

\* C3: after a failed initial fetch, and before the first generator tick,
\* price is the fallback 50000 and error is a non-null message.
C3_FailedFetchSetsFallbackAndError ==
  (alive /\ acts[Cur].outcome = "failed" /\ emitted = <<>>)
    => (price = FallbackPrice /\ error # NoError)

\* C4: an activation whose fetch has settled, whatever the outcome, and that
\* is still mounted has its generator interval running and isConnected true.
C4_SettledMountedActivationGenerates ==
  \A a \in ActIds :
    (acts[a].pc = "done" /\ acts[a].mounted)
      => (acts[a].timer /\ mockIntervalRef = a /\ isConnected)

C4_Witness ==
  \E a \in ActIds :
    /\ acts[a].outcome = "failed"
    /\ acts[a].mounted
    /\ acts[a].timer
    /\ isConnected
    /\ emitted # <<>>

\* C5: a malformed quote response seeds the generator from the fallback 50000
\* and NaN never appears in price or in a history sample.
C5_MalformedQuoteTreatedAsFailure ==
  /\ price # NaN
  /\ \A i \in 1..Len(history) : history[i].price # NaN
  /\ \A a \in ActIds :
       (acts[a].outcome = "malformed" /\ emitted = <<>>)
         => acts[a].mockPrice = FallbackPrice

\* The callbacks that belong to activation a.
StepOfActivation(a) ==
  \/ \E resp \in Responses : FetchSettles(a, resp)
  \/ Tick(a)

\* C6: after the teardown of an activation none of its intervals is
\* scheduled and none of its callbacks changes price or history.
C6_NothingAfterTeardown ==
  [][ /\ \A a \in DOMAIN acts' : acts'[a].timer => acts'[a].mounted
      /\ \A a \in ActIds :
           (~acts[a].mounted /\ StepOfActivation(a)) => UNCHANGED <<price, history>>
    ]_vars

C6_Witness ==
  /\ \E a \in ActIds : acts[a].outcome = "ignored"
  /\ \E a \in ActIds : acts[a].outcome = "superseded"
  /\ history # <<>>

\* C7: over any sequence of updateMarketData calls high24h never decreases
\* and low24h never increases.
C7_HighLowRatchet ==
  [][ /\ marketData'.high24h >= marketData.high24h
      /\ marketData'.low24h <= marketData.low24h ]_vars

C7_Witness ==
  /\ marketData.high24h > DefaultMarketData.high24h
  /\ marketData.low24h < DefaultMarketData.low24h

\* C8: a call with price > high24h * 1.001 leaves high24h = price, and a call
\* with price < low24h * 0.999 leaves low24h = price.
C8_ThresholdCrossingSetsExtreme ==
  [][ LET p == marketArg'
      IN p # NaN =>
           /\ (p * 1000 > marketData.high24h * 1001) => marketData'.high24h = p
           /\ (p * 1000 < marketData.low24h * 999) => marketData'.low24h = p
    ]_vars

C8_Witness ==
  /\ marketData.high24h = 53000
  /\ marketArg = 48871
  /\ marketData.low24h = 48871

\* C9: a call with low24h * 0.999 <= price <= high24h * 1.001 leaves all four
\* fields of the snapshot as they were.
C9_InBandLeavesSnapshot ==
  [][ LET p == marketArg'
      IN (p # NaN /\ marketData.low24h * 999 <= p * 1000
                  /\ p * 1000 <= marketData.high24h * 1001)
           => marketData' = marketData
    ]_vars

C9_Witness ==
  /\ marketArg = 52460
  /\ marketData = DefaultMarketData

\* C10: after n addTrade calls the list holds the min(n, 10) newest trades,
\* newest first, each with the price of its call and a type of Buy or Sell.
C10_TradesAreNewestTen ==
  LET n == Len(tradeCalls)
  IN /\ Len(trades) = Min(n, MaxTrades)
     /\ \A i \in 1..Len(trades) :
          /\ trades[i].price = tradeCalls[n - i + 1]
          /\ trades[i].type \in {"Buy", "Sell"}

C10_Witness ==
  /\ Len(tradeCalls) = MaxTrades + 1
  /\ Len(trades) = MaxTrades
  /\ tradeCalls[1] # tradeCalls[2]
  /\ trades[MaxTrades].price = tradeCalls[2]
  /\ trades[1].type # trades[2].type

\* The scheduler is idle: no transition in flight, nothing queued.
ChartIdle == chart.transition = <<>> /\ chart.dataQueue = <<>>

\* C11: with the chart initialised and mounted, once every playback cycle
\* has completed the path's data are the last visibleCount elements of the
\* initial fill followed by the enqueued ticks, in order.
C11_IdleSeriesIsLastVisibleCount ==
  (chart.live /\ chart.isInitialized /\ ChartIdle)
    => chart.datum = LastN(chart.fill \o chart.enqueued, chart.visibleCount)

C11_Witness ==
  /\ chart.live /\ chart.isInitialized /\ ChartIdle
  /\ Len(chart.enqueued) > chart.visibleCount
  /\ chart.completed = Len(chart.enqueued)
  /\ chart.enqueued[1] # chart.enqueued[2]

\* C12: after initialisation the path's data have visibleCount elements when
\* no transition is in flight and visibleCount + 1 while one is.
C12_SeriesLength ==
  chart.isInitialized
    => Len(chart.datum) = IF chart.transition = <<>> THEN chart.visibleCount
                          ELSE chart.visibleCount + 1

C12_Witness ==
  /\ chart.isInitialized /\ chart.transition = <<>>
  /\ chart.completed >= 2
  /\ Len(chart.datum) = chart.visibleCount

\* C13: a point is dequeued and a transition started only when no transition
\* is in flight or in the "end" listener of the one that was.
C13_NoCycleWhileInFlight ==
  [][chart'.played # chart.played
       => (chart.transition = <<>> \/ chart'.completed = chart.completed + 1)]_vars

C13_Witness ==
  /\ chart.transition # <<>>
  /\ chart.dataQueue # <<>>
  /\ chart.completed >= 1

\* C14: when every transition that starts completes, every enqueued tick of a
\* mounted chart is eventually dequeued, and the scheduler ends idle with
\* isAnimating false.
C14_EveryTickPlayedThenIdle ==
  /\ \A k \in 1..(MaxEnqueue + 1) :
       (Len(chart.enqueued) >= k) ~> (Len(chart.played) >= k \/ ~chart.live)
  /\ <>[](~chart.live \/ (ChartIdle /\ ~chart.isAnimating))

C14_Witness ==
  /\ chart.live /\ ChartIdle /\ ~chart.isAnimating
  /\ Len(chart.played) >= 2
  /\ chart.played = chart.enqueued

\* C16: an "end" listener that runs after the view was torn down leaves the
\* path's data and the queue as they are and starts no cycle.
C16_EndAfterTeardownDoesNothing ==
  [][(~chart.live /\ chart'.completed # chart.completed)
       => (chart'.datum = chart.datum /\ chart'.dataQueue = chart.dataQueue
           /\ chart'.played = chart.played /\ chart'.isAnimating = chart.isAnimating)]_vars

\* C15: once the chart is initialised, the ticks the feed puts into history
\* are the values enqueued for playback, each once and in order.
C15_EveryTickEnqueuedOnce ==
  chart.isInitialized => chart.enqueued = panel.fed

\* C17: onPriceUpdate has been called once for each sample accepted into
\* history, with that sample's price, in order.
C17_ReportedOncePerTick == panel.reported = panel.accepted

\* C18: while the current activation's initial fetch is pending the hook
\* exposes price null, an empty history, isConnected false and error null;
\* before their first call useTrades holds no trades and the default snapshot.
C18_InitialValuesUntilFetchSettles ==
  /\ (alive /\ acts[Cur].pc = "fetching")
       => (price = Null /\ history = <<>> /\ ~isConnected /\ error = NoError)
  /\ tradeCalls = <<>> => trades = <<>>
  /\ marketArg = Null => marketData = DefaultMarketData

\* a <= b on numbers; false when either is NaN.
Le(a, b) == a # NaN /\ b # NaN /\ a <= b

\* C20: the y domain createScales computes for a non-empty history contains
\* every price of the history and currentPrice - pad and currentPrice + pad.
C20_YDomainContainsPrices ==
  (scales.applied /\ history # <<>>)
    => LET yMin == scales.yDomain[1]
           yMax == scales.yDomain[2]
           current == Times(history[Len(history)].price, 10000)
           InDomain(v) == Le(yMin, v) /\ Le(v, yMax)
       IN /\ \A i \in 1..Len(history) : InDomain(Times(history[i].price, 10000))
          /\ InDomain(Add(current, Times(scales.padding, -1)))
          /\ InDomain(Add(current, scales.padding))

\* C21: the first non-null dataPoint makes the series visibleCount copies of
\* itself and is not enqueued; once initialised the chart stays initialised
\* with the same fill, and every later dataPoint is enqueued.
C21_FirstPointFillsLaterPointsEnqueue ==
  [][/\ (~chart.isInitialized /\ chart'.dataPoint # Null)
          => /\ chart'.isInitialized
             /\ chart'.datum = [i \in 1..chart'.visibleCount |-> chart'.dataPoint]
             /\ chart'.fill = chart'.datum
             /\ chart'.enqueued = <<>> /\ chart'.dataQueue = <<>>
     /\ chart.isInitialized
          => /\ chart'.isInitialized /\ chart'.fill = chart.fill
             /\ chart'.dataPoint # chart.dataPoint
                  => chart'.enqueued = Append(chart.enqueued, chart'.dataPoint)]_vars

C21_Witness ==
  /\ chart.isInitialized
  /\ Len(chart.enqueued) >= 2
  /\ chart.fill[1] # chart.enqueued[1]
  /\ Len(chart.fill) = chart.visibleCount

\* C22: a cycle that starts with d ticks left in the queue plays for
\* 500 / (1 + 0.1 d) ms: the base when d = 0, less than the base otherwise,
\* and less for every additional queued tick.
C22_DurationFallsWithBacklog ==
  [][(chart'.played # chart.played /\ chart'.transition # <<>>)
       => LET d == Len(chart'.dataQueue)
              dur == Head(chart'.transition).duration
          IN /\ dur * (10 + d) <= 10 * BaseDuration
             /\ 10 * BaseDuration < (dur + 1) * (10 + d)
             /\ d = 0 => dur = BaseDuration
             /\ dur <= BaseDuration
             /\ \A k \in 0..MaxEnqueue : Duration(k + 1) < Duration(k)]_vars

C22_Witness ==
  /\ chart.transition # <<>>
  /\ Head(chart.transition).duration < BaseDuration
  /\ chart.completed >= 1

\* The price of the sample nearer in time to x0 among h[j], h[j + 1], the
\* earlier one on a tie.
NearerPrice(h, j, x0) ==
  IF x0 - h[j].time <= h[j + 1].time - x0 THEN h[j].price ELSE h[j + 1].price

\* C23: after a mousemove at a time inside the history's time range the
\* tooltip shows the price of the nearer of two samples bracketing that
\* time; a mousemove beyond the last sample leaves the tooltip as it was.
C23_TooltipShowsNearerSample ==
  [][tooltip'.moves # tooltip.moves
       => LET x0 == tooltip'.x0
              n == Len(history)
          IN /\ (history[1].time <= x0 /\ x0 <= history[n].time)
                  => \E j \in 1..(n - 1) :
                       /\ history[j].time <= x0 /\ x0 <= history[j + 1].time
                       /\ tooltip'.text = NearerPrice(history, j, x0)
             /\ x0 > history[n].time => tooltip'.text = tooltip.text]_vars

\* The activations whose generator interval is scheduled.
ActiveIntervals == {a \in ActIds : acts[a].timer}

\* C24: at most one generator interval is scheduled in any reachable state.
C24_AtMostOneInterval == Cardinality(ActiveIntervals) <= 1

C24_Witness ==
  /\ Cur >= 2
  /\ ActiveIntervals = {Cur}
  /\ \E a \in ActIds : a < Cur /\ acts[a].pc = "done" /\ acts[a].outcome = "superseded"

\* C25: when the fetch of an activation superseded while it was fetching
\* settles, price and history stay as they are and no generator starts.
C25_SupersededFetchChangesNothing ==
  [][\A a \in ActIds :
       (a < Cur /\ acts[a].pc = "fetching" /\ acts'[a].pc = "done")
         => /\ price' = price /\ history' = history
            /\ ~acts'[a].timer
            /\ mockIntervalRef' = mockIntervalRef
            /\ isConnected' = isConnected]_vars

C25_Witness ==
  /\ alive /\ Cur >= 2
  /\ \E a \in ActIds : a < Cur /\ acts[a].pc = "done" /\ acts[a].outcome = "ignored"
  /\ acts[Cur].timer

\* C26: once an activation that followed a symbol change has settled its
\* fetch and runs its generator, every sample in the history was made under
\* the current symbol.
C26_NoSampleOfPreviousSymbol ==
  (alive /\ acts[Cur].pc = "done" /\ acts[Cur].timer)
    => \A i \in 1..Len(history) : history[i].feed = symbol

\* C27: whenever the initialised chart is not animating, the queue is empty
\* and no transition is in flight.
C27_IdleMeansEmptyQueue ==
  (chart.isInitialized /\ ~chart.isAnimating)
    => (chart.dataQueue = <<>> /\ chart.transition = <<>>)

C27_Witness ==
  /\ chart.isInitialized /\ ~chart.isAnimating
  /\ chart.dataQueue = <<>>
  /\ Len(chart.played) >= 2
  /\ chart.completed = Len(chart.played)

\* C28: a re-run of the effect with the same dataPoint (a step that is
\* neither a new dataPoint nor a transition's end) leaves the queue and the
\* path's data unchanged.
C28_RerunWithSamePointChangesNothing ==
  [][(chart'.dataPoint = chart.dataPoint /\ chart'.completed = chart.completed)
       => (chart'.dataQueue = chart.dataQueue /\ chart'.datum = chart.datum
           /\ chart'.enqueued = chart.enqueued)]_vars

\* C29: every price Home has passed to updateMarketData lies within the band
\* of the snapshot: low24h * 0.999 <= p <= high24h * 1.001.
C29_PassedPricesWithinBand ==
  \A i \in 1..Len(marketLog) :
    /\ marketData.low24h * 999 <= marketLog[i] * 1000
    /\ marketLog[i] * 1000 <= marketData.high24h * 1001

C29_Witness ==
  /\ Len(marketLog) >= 3
  /\ marketData.high24h > DefaultMarketData.high24h
  /\ marketData.low24h < DefaultMarketData.low24h
  /\ \E i \in 1..Len(marketLog) : marketLog[i] > marketData.high24h

\* With maxPoints at or below the threshold the panel is loading in every
\* reachable state, whatever the number of ticks: history never holds more
\* than maxPoints samples.
LoadingStuckAtSmallMaxPoints ==
  maxPoints <= LoadingThreshold => (panel.isLoading /\ Len(history) <= maxPoints)

\* C30: for every maxPoints a ChartPanel that stays mounted eventually has
\* isLoading false.
C30_EventuallyLeavesLoading == <>(~panel.isLoading \/ ~alive)

====
